---------------------------- MODULE Spec2Model ----------------------------
(***************************************************************************)
(* Model of dwarfdump/esb.c, the extensible string buffer (non-_WIN32      *)
(* build).  One struct esb_s, the process heap, the growth quantum         *)
(* alloc_size, the caller's pointer to a detached copy, the error stream   *)
(* and the process status.  Every C function is an operator from a machine *)
(* state to the SET of machine states it can return in: malloc/realloc may *)
(* fail, fresh memory holds arbitrary bytes, and undefined behaviour is a  *)
(* choice among its outcomes.                                              *)
(***************************************************************************)
EXTENDS Integers, Sequences, FiniteSets, TLC

(* ------------------------------ bounds -------------------------------- *)
\* largest allocation request explored
MaxCap == 3
\* growth quanta explored: alloc_size ranges over 1..MaxQuantum
MaxQuantum == 2
\* longest caller string / expanded format text explored
MaxStr == 2

(* --------------------------- program constants ------------------------ *)
\* size_t arithmetic is modulo SIZE_MOD (a 16-bit size_t, the narrowest C allows)
SIZE_MOD == 65536
\* the null pointer
NULL == 0
\* status passed to exit() on allocation failure
EXIT_OOM == 5

\* the bytes explored: NUL, 'a' and 'b'
Byte == {0, 1, 2}
Char == Byte \ {0}
\* heap addresses: one block for the buffer storage, one for a detached copy
Addr == 1..2

SeqsUpTo(S, n) == UNION {[1..k -> S] : k \in 0..n}
Max(a, b) == IF a >= b THEN a ELSE b
Min(a, b) == IF a <= b THEN a ELSE b

\* caller strings as they lie in memory: content bytes, then the terminator
CStrings == {s \o <<0>> : s \in SeqsUpTo(Char, MaxStr)}
\* caller arrays: the strings, and strings followed by a further byte
\* after their terminator (an embedded NUL before the claimed length)
InArrays ==
    CStrings \cup {s \o <<0, 2, 0>> : s \in SeqsUpTo(Char, MaxStr - 1)}
\* a format with its arguments: the text it expands to, or, when err, the
\* text produced before the conversion error
Formats == [err : BOOLEAN, text : SeqsUpTo(Char, MaxStr)]

(* ------------------------------ libc ---------------------------------- *)
HasNul(mem) == \E i \in 1..Len(mem) : mem[i] = 0
\* strlen: number of bytes before the first NUL (the whole of mem if none)
strlen(mem) ==
    IF HasNul(mem)
    THEN (CHOOSE i \in 1..Len(mem) :
            mem[i] = 0 /\ \A j \in 1..(i-1) : mem[j] # 0) - 1
    ELSE Len(mem)

\* mem with bytes written from offset off (0-based); bytes falling outside
\* the block do not land in it
Store(mem, off, bytes) ==
    [i \in 1..Len(mem) |->
        IF i > off /\ i <= off + Len(bytes) THEN bytes[i - off] ELSE mem[i]]
Overruns(mem, off, n) == n > 0 /\ off + n > Len(mem)

\* the n bytes strncpy(dst, src, n) writes: src up to its NUL, then NUL padding
strncpy_bytes(src, n) ==
    [i \in 1..n |-> IF i <= strlen(src) THEN src[i] ELSE 0]

FreeBlock == [live |-> FALSE, bytes |-> <<>>]
FreeAddrs(heap) == {a \in Addr : ~heap[a].live}
\* the contents fresh memory can have: n bytes the program never wrote,
\* taken here to be one repeated byte of any value (zeroed pages, a fill
\* pattern, stale text)
Fresh(n) == {[i \in 1..n |-> g] : g \in Byte}
\* malloc(n): NULL, or a fresh block of n bytes of arbitrary content
malloc(heap, n) ==
    {[heap |-> heap, p |-> NULL]} \cup
    IF FreeAddrs(heap) = {} THEN {}
    ELSE LET a == CHOOSE x \in FreeAddrs(heap) : \A y \in FreeAddrs(heap) : x <= y
         IN {[heap |-> [heap EXCEPT ![a] = [live |-> TRUE, bytes |-> g]], p |-> a]
                : g \in Fresh(n)}
\* realloc(p, n): NULL leaving the block alone, or the block resized to n
\* bytes, the common prefix kept and any new tail arbitrary
realloc(heap, p, n) ==
    IF p = NULL THEN malloc(heap, n)
    ELSE LET old == heap[p].bytes
             k == Max(n - Len(old), 0)
         IN {[heap |-> heap, p |-> NULL]} \cup
            {[heap |-> [heap EXCEPT ![p] = [live |-> TRUE, bytes |->
                    [i \in 1..n |-> IF i <= Len(old) THEN old[i] ELSE g[i - Len(old)]]]],
              p |-> p] : g \in Fresh(k)}

(* --------------------------- machine state ---------------------------- *)
VARIABLES
    heap,               \* Addr -> [live, bytes]
    esb_string,         \* struct esb_s: pointer to the storage, or NULL
    esb_allocated_size, \* struct esb_s
    esb_used_bytes,     \* struct esb_s
    alloc_size,         \* the file-static growth quantum
    copy,               \* the caller's pointer returned by esb_get_copy
    stderr,             \* messages the last operation wrote to stderr
    pc,                 \* "running", "exited" (exit called), "killed" (signal)
    exit_code,          \* the status given to exit()
    oob,                \* the last operation wrote outside a block
    nomem,              \* malloc or realloc returned NULL in the last operation
    last,               \* name of the last operation
    pre,                \* [alloc, used] as they were before the last operation
    expected,           \* concatenation of what the appends were asked to add
    pure                \* only esb_append/esb_appendn ran since construction

vars == <<heap, esb_string, esb_allocated_size, esb_used_bytes, alloc_size,
          copy, stderr, pc, exit_code, oob, nomem, last, pre, expected, pure>>

\* the machine state a C function runs in, at the start of an operation
Cur == [heap |-> heap, esb_string |-> esb_string,
        esb_allocated_size |-> esb_allocated_size,
        esb_used_bytes |-> esb_used_bytes,
        stderr |-> <<>>, pc |-> pc, exit_code |-> exit_code, oob |-> FALSE,
        nomem |-> FALSE]

\* the branch taken on a NULL from malloc/realloc: fprintf(stderr, ...); exit(5)
Die(S, msg) == [S EXCEPT !.stderr = Append(@, msg), !.pc = "exited",
                         !.exit_code = EXIT_OOM, !.nomem = TRUE]
\* a write outside a block: the neighbouring memory takes it silently, or
\* the process is killed
OutOfBounds(S) == {[S EXCEPT !.oob = TRUE],
                   [S EXCEPT !.oob = TRUE, !.pc = "killed"]}

(* ------------------------------- esb.c -------------------------------- *)
init_esb_string(S, min_len) ==
    IF S.esb_allocated_size > 0 THEN {S}
    ELSE LET n == IF min_len <= alloc_size THEN alloc_size + 1
                  ELSE (min_len + 1) % SIZE_MOD
         IN {IF r.p = NULL THEN Die(S, <<"out of memory allocating", n>>)
             ELSE [S EXCEPT !.heap = [r.heap EXCEPT ![r.p].bytes = Store(@, 0, <<0>>)],
                            !.esb_string = r.p,
                            !.esb_allocated_size = n,
                            !.esb_used_bytes = 0]
                : r \in malloc(S.heap, n)}

\* esb_allocate_more computing the new size from len alone
esb_allocate_more_nosum(S, len) ==
    LET new_size == IF len < alloc_size THEN alloc_size ELSE len
    IN {IF r.p = NULL THEN Die(S, <<"out of memory re-allocating", new_size>>)
        ELSE [S EXCEPT !.heap = r.heap,
                       !.esb_string = r.p,
                       !.esb_allocated_size = new_size]
           : r \in realloc(S.heap, S.esb_string, new_size)}

\* esb_allocate_more taking a new block without carrying the old bytes over
esb_allocate_more_malloc(S, len) ==
    LET sum == (S.esb_allocated_size + len) % SIZE_MOD
        new_size == IF sum < alloc_size THEN alloc_size ELSE sum
        p == IF S.esb_string = NULL THEN 1 ELSE S.esb_string
    IN {Die(S, <<"out of memory re-allocating", new_size>>)} \cup
       {[S EXCEPT !.heap[p] = [live |-> TRUE, bytes |-> g],
                  !.esb_string = p,
                  !.esb_allocated_size = new_size]
           : g \in Fresh(new_size)}

esb_allocate_more(S, len) ==
    LET sum == (S.esb_allocated_size + len) % SIZE_MOD
        new_size == IF sum < alloc_size THEN alloc_size ELSE sum
    IN {IF r.p = NULL THEN Die(S, <<"out of memory re-allocating", new_size>>)
        ELSE [S EXCEPT !.heap = r.heap,
                       !.esb_string = r.p,
                       !.esb_allocated_size = new_size]
           : r \in realloc(S.heap, S.esb_string, new_size)}

\* esb_force_allocation growing by minlen instead of by the deficit
esb_force_allocation_by(S, minlen) ==
    IF S.esb_allocated_size < minlen
    THEN esb_allocate_more(S, minlen)
    ELSE {S}

esb_force_allocation(S, minlen) ==
    IF S.esb_allocated_size < minlen
    THEN esb_allocate_more(S, (minlen - S.esb_allocated_size) % SIZE_MOD)
    ELSE {S}

\* the growth test of esb_appendn_internal with < for <=
appendn_grow_lt(S, len) ==
    IF S.pc # "running" THEN {S}
    ELSE LET remaining == (S.esb_allocated_size - S.esb_used_bytes) % SIZE_MOD
         IN IF remaining < len THEN esb_allocate_more(S, len) ELSE {S}

\* the tail of esb_appendn_internal with esb_used_bytes = len for += len
appendn_copy_assign(S, in_string, len) ==
    IF S.pc # "running" THEN {S}
    ELSE LET mem  == S.heap[S.esb_string].bytes
             used == len
             mem1 == Store(mem, S.esb_used_bytes, strncpy_bytes(in_string, len))
             mem2 == Store(mem1, used, <<0>>)
             S1   == [S EXCEPT !.heap[S.esb_string].bytes = mem2,
                               !.esb_used_bytes = used]
         IN IF Overruns(mem, S.esb_used_bytes, len) \/ Overruns(mem1, used, 1)
            THEN OutOfBounds(S1)
            ELSE {S1}

\* the tail of esb_appendn_internal: strncpy, advance, write the terminator
appendn_copy(S, in_string, len) ==
    IF S.pc # "running" THEN {S}
    ELSE LET mem  == S.heap[S.esb_string].bytes
             used == (S.esb_used_bytes + len) % SIZE_MOD
             mem1 == Store(mem, S.esb_used_bytes, strncpy_bytes(in_string, len))
             mem2 == Store(mem1, used, <<0>>)
             S1   == [S EXCEPT !.heap[S.esb_string].bytes = mem2,
                               !.esb_used_bytes = used]
         IN IF Overruns(mem, S.esb_used_bytes, len) \/ Overruns(mem1, used, 1)
            THEN OutOfBounds(S1)
            ELSE {S1}

appendn_grow(S, len) ==
    IF S.pc # "running" THEN {S}
    ELSE LET remaining == (S.esb_allocated_size - S.esb_used_bytes) % SIZE_MOD
         IN IF remaining <= len THEN esb_allocate_more(S, len) ELSE {S}

esb_appendn_internal(S, in_string, len) ==
    LET maxlen == IF len >= alloc_size THEN len ELSE alloc_size
        A == IF S.esb_allocated_size = 0 THEN init_esb_string(S, maxlen) ELSE {S}
        B == UNION {appendn_grow(a, len) : a \in A}
    IN UNION {appendn_copy(b, in_string, len) : b \in B}

esb_appendn(S, in_string, len) ==
    LET full_len == strlen(in_string)
    IN IF full_len < len
       THEN esb_appendn_internal(
                [S EXCEPT !.stderr = Append(@, <<"bad string length", full_len, len>>)],
                in_string, full_len)
       ELSE esb_appendn_internal(S, in_string, len)

\* in_string = <<>> stands for a NULL argument
esb_append(S, in_string) ==
    IF in_string # <<>> /\ strlen(in_string) # 0
    THEN esb_appendn_internal(S, in_string, strlen(in_string))
    ELSE {S}

\* esb_get_string returning esb_string without the call of init_esb_string
esb_get_string_noinit(S) == {S}

\* what the caller can read at the pointer esb_get_string returns
esb_get_string(S) ==
    IF S.esb_allocated_size = 0 THEN init_esb_string(S, alloc_size) ELSE {S}

\* esb_empty_string without the store of the terminator
esb_empty_string_noterm(S) ==
    LET A == IF S.esb_allocated_size = 0 THEN init_esb_string(S, alloc_size) ELSE {S}
    IN {IF a.pc # "running" THEN a
        ELSE [a EXCEPT !.esb_used_bytes = 0]
           : a \in A}

esb_empty_string(S) ==
    LET A == IF S.esb_allocated_size = 0 THEN init_esb_string(S, alloc_size) ELSE {S}
    IN {IF a.pc # "running" THEN a
        ELSE [a EXCEPT !.esb_used_bytes = 0,
                       !.heap[a.esb_string].bytes = Store(@, 0, <<0>>)]
           : a \in A}

esb_string_len(S) == S.esb_used_bytes

esb_constructor(S) ==
    [S EXCEPT !.esb_string = NULL, !.esb_allocated_size = 0, !.esb_used_bytes = 0]

\* esb_destructor without the free of esb_string
esb_destructor_leak(S) == esb_constructor(S)

esb_destructor(S) ==
    IF S.esb_string # NULL
    THEN esb_constructor([S EXCEPT !.heap[S.esb_string] = FreeBlock])
    ELSE esb_constructor(S)

esb_get_allocated_size(S) == S.esb_allocated_size

\* vsnprintf(&mem[off], n, format, ap): the return value and the block
\* afterwards.  At most n-1 bytes of the text and then a NUL are stored;
\* with n = 0 nothing is stored.  On a conversion error the return value is
\* negative and the text produced so far may or may not have been stored.
vsnprintf(mem, off, n, fmt) ==
    LET m == Len(fmt.text)
        k == Min(m, n - 1)
        written == IF n = 0 THEN mem
                   ELSE Store(mem, off, SubSeq(fmt.text, 1, k) \o <<0>>)
    IN IF fmt.err
       THEN {[ret |-> -1, mem |-> mem], [ret |-> -1, mem |-> written]}
       ELSE {[ret |-> m, mem |-> written]}

\* esb_allocate_more_if_needed growing by netlen + 1 whatever the capacity
esb_allocate_more_if_needed_always(S, fmt) ==
    LET netlen == IF fmt.err THEN -1 ELSE Len(fmt.text)
    IN esb_allocate_more(S, (netlen + 1) % SIZE_MOD)

\* the measure phase: vsnprintf into a_buffer[512] only yields the length
esb_allocate_more_if_needed(S, fmt) ==
    LET netlen == IF fmt.err THEN -1 ELSE Len(fmt.text)
    IN esb_force_allocation(S, (netlen + 1) % SIZE_MOD)

\* the commit phase: render at offset esb_used_bytes, then advance
printf_render(S, fmt) ==
    IF S.pc # "running" THEN {S}
    ELSE LET netlen == S.esb_allocated_size - S.esb_used_bytes
             mem == IF S.esb_string = NULL THEN <<>>
                    ELSE S.heap[S.esb_string].bytes
         IN {LET S1 == IF S.esb_string = NULL THEN S
                       ELSE [S EXCEPT !.heap[S.esb_string].bytes = r.mem]
             IN IF r.ret < 0 THEN S1
                ELSE IF netlen < r.ret
                THEN [S1 EXCEPT !.esb_used_bytes = (@ + netlen - 1) % SIZE_MOD]
                ELSE [S1 EXCEPT !.esb_used_bytes = (@ + r.ret) % SIZE_MOD]
               : r \in vsnprintf(mem, S.esb_used_bytes, netlen, fmt)}

esb_append_printf_ap(S, fmt) ==
    UNION {printf_render(a, fmt) : a \in esb_allocate_more_if_needed(S, fmt)}

\* strcpy(dst, src) into a block of Len(dst) bytes: the states and block
\* contents it can leave.  A source with no NUL inside its block is read
\* past its end.
strcpy(S, dst, src) ==
    LET bytes == SubSeq(src, 1, strlen(src)) \o <<0>>
    IN IF ~HasNul(src) \/ Overruns(dst, 0, Len(bytes))
       THEN {[st |-> s, mem |-> Store(dst, 0, bytes)] : s \in OutOfBounds(S)}
       ELSE {[st |-> S, mem |-> Store(dst, 0, bytes)]}

\* returns the states it can end in, each with the pointer returned
esb_get_copy(S) ==
    LET len == esb_string_len(S)
    IN IF len = 0 THEN {[st |-> S, ret |-> NULL]}
       ELSE UNION {
              IF r.p = NULL
              THEN \* strcpy through the null pointer
                   {[st |-> s, ret |-> NULL]
                      : s \in OutOfBounds([S EXCEPT !.nomem = TRUE])}
              ELSE UNION {
                     {[st |-> [c.st EXCEPT !.heap[r.p].bytes = c.mem], ret |-> r.p]
                        : c \in strcpy([g EXCEPT !.heap = r.heap],
                                       r.heap[r.p].bytes,
                                       g.heap[g.esb_string].bytes)}
                     : g \in esb_get_string(S)}
              : r \in malloc(S.heap, (len + 1) % SIZE_MOD)}

(* ------------------------------ actions ------------------------------- *)
\* sizes asked of malloc/realloc stay within the explored range
Bounded(T) ==
    /\ T.esb_allocated_size <= MaxCap
    /\ \A i \in 1..Len(T.stderr) :
          Len(T.stderr[i]) = 2 => T.stderr[i][2] <= MaxCap

Pre == [alloc |-> esb_allocated_size, used |-> esb_used_bytes]

\* the operation returns in machine state T, the caller's copy pointer
\* being cp; a process that has ended has no memory left
Return(T, name, cp) ==
    /\ Bounded(T)
    /\ heap' = IF T.pc = "running" THEN T.heap ELSE [a \in Addr |-> FreeBlock]
    /\ esb_string' = IF T.pc = "running" THEN T.esb_string ELSE NULL
    /\ esb_allocated_size' = IF T.pc = "running" THEN T.esb_allocated_size ELSE 0
    /\ esb_used_bytes' = IF T.pc = "running" THEN T.esb_used_bytes ELSE 0
    /\ copy' = IF T.pc = "running" THEN cp ELSE NULL
    /\ stderr' = T.stderr
    /\ pc' = T.pc
    /\ exit_code' = T.exit_code
    /\ oob' = T.oob
    /\ nomem' = T.nomem
    /\ last' = name
    /\ pre' = Pre

\* the caller holds no copy: it may clear or destroy the buffer while it
\* holds one, and frees the copy before it uses the buffer again
CopyReleased == copy = NULL

Impure == expected' = <<>> /\ pure' = FALSE

Init ==
    /\ heap = [a \in Addr |-> FreeBlock]
    /\ esb_string = NULL
    /\ esb_allocated_size = 0
    /\ esb_used_bytes = 0
    /\ alloc_size \in 1..MaxQuantum
    /\ copy = NULL
    /\ stderr = <<>>
    /\ pc = "running"
    /\ exit_code = 0
    /\ oob = FALSE
    /\ nomem = FALSE
    /\ last = "esb_constructor"
    /\ pre = [alloc |-> 0, used |-> 0]
    /\ expected = <<>>
    /\ pure = TRUE

AppendCstring(in_string) ==
    /\ pc = "running"
    /\ CopyReleased
    /\ \E T \in esb_append(Cur, in_string) : Return(T, "esb_append", copy)
    /\ expected' = expected \o SubSeq(in_string, 1, strlen(in_string))
    /\ UNCHANGED <<alloc_size, pure>>

AppendBounded(in_string, len) ==
    /\ pc = "running"
    /\ CopyReleased
    /\ \E T \in esb_appendn(Cur, in_string, len) : Return(T, "esb_appendn", copy)
    /\ expected' = expected \o SubSeq(in_string, 1, Min(len, strlen(in_string)))
    /\ UNCHANGED <<alloc_size, pure>>

AppendFormatted(fmt) ==
    /\ pc = "running"
    /\ CopyReleased
    /\ \E T \in esb_append_printf_ap(Cur, fmt) : Return(T, "esb_append_printf", copy)
    /\ Impure
    /\ UNCHANGED alloc_size

ForceCapacity(minlen) ==
    /\ pc = "running"
    /\ CopyReleased
    /\ \E T \in esb_force_allocation(Cur, minlen) : Return(T, "esb_force_allocation", copy)
    /\ Impure
    /\ UNCHANGED alloc_size

GetString ==
    /\ pc = "running"
    /\ CopyReleased
    /\ \E T \in esb_get_string(Cur) : Return(T, "esb_get_string", copy)
    /\ Impure
    /\ UNCHANGED alloc_size

Clear ==
    /\ pc = "running"
    /\ \E T \in esb_empty_string(Cur) : Return(T, "esb_empty_string", copy)
    /\ Impure
    /\ UNCHANGED alloc_size

StringLen ==
    /\ pc = "running"
    /\ CopyReleased
    /\ Return(Cur, "esb_string_len", copy)
    /\ Impure
    /\ UNCHANGED alloc_size

Destroy ==
    /\ pc = "running"
    /\ Return(esb_destructor(Cur), "esb_destructor", copy)
    /\ expected' = <<>>
    /\ pure' = TRUE
    /\ UNCHANGED alloc_size

CopyOut ==
    /\ pc = "running"
    /\ copy = NULL
    /\ \E R \in esb_get_copy(Cur) : Return(R.st, "esb_get_copy", R.ret)
    /\ Impure
    /\ UNCHANGED alloc_size

\* the caller frees the copy it owns
FreeCopy ==
    /\ pc = "running"
    /\ copy # NULL
    /\ Return([Cur EXCEPT !.heap[copy] = FreeBlock], "free", NULL)
    /\ Impure
    /\ UNCHANGED alloc_size

SetAllocSize(size) ==
    /\ pc = "running"
    /\ CopyReleased
    /\ Return(Cur, "esb_alloc_size", copy)
    /\ alloc_size' = size
    /\ Impure

Next ==
    \/ \E s \in CStrings \cup {<<>>} : AppendCstring(s)
    \/ \E s \in InArrays, len \in 0..(MaxStr + 1) : AppendBounded(s, len)
    \/ \E fmt \in Formats : AppendFormatted(fmt)
    \/ \E minlen \in 0..MaxCap : ForceCapacity(minlen)
    \/ GetString
    \/ Clear
    \/ StringLen
    \/ Destroy
    \/ \E size \in 1..MaxQuantum : SetAllocSize(size)
    \/ CopyOut
    \/ FreeCopy

Spec == Init /\ [][Next]_vars

(* ------------------- esb_allocate_more on its own ---------------------- *)
\* the values of len given to esb_allocate_more: the small ones, and the
\* ones at the top of the range of size_t
Extras == (0..MaxCap) \cup ((SIZE_MOD - MaxCap)..(SIZE_MOD - 1))

\* the buffers esb_allocate_more is applied to: never allocated, or an
\* empty string in storage of any explored capacity, under any quantum
InitGrow ==
    /\ alloc_size \in 1..MaxQuantum
    /\ \E c \in 0..MaxCap :
          /\ esb_allocated_size = c
          /\ esb_string = IF c = 0 THEN NULL ELSE 1
          /\ heap \in
                IF c = 0 THEN {[a \in Addr |-> FreeBlock]}
                ELSE {[a \in Addr |->
                         IF a = 1
                         THEN [live |-> TRUE, bytes |-> Store(g, 0, <<0>>)]
                         ELSE FreeBlock] : g \in Fresh(c)}
    /\ esb_used_bytes = 0
    /\ copy = NULL
    /\ stderr = <<>>
    /\ pc = "running"
    /\ exit_code = 0
    /\ oob = FALSE
    /\ nomem = FALSE
    /\ last = "esb_constructor"
    /\ pre = [alloc |-> 0, used |-> 0]
    /\ expected = <<>>
    /\ pure = FALSE

\* a call whose sum, taken modulo SIZE_MOD, stays within the explored sizes
GrowBy(extra) ==
    /\ pc = "running"
    /\ (esb_allocated_size + extra) % SIZE_MOD <= MaxCap
    /\ \E T \in esb_allocate_more(Cur, extra) : Return(T, "esb_allocate_more", copy)
    /\ Impure
    /\ UNCHANGED alloc_size

NextGrow ==
    \/ \E extra \in Extras : GrowBy(extra)
    \/ \E size \in 1..MaxQuantum : SetAllocSize(size)

SpecGrow == InitGrow /\ [][NextGrow]_vars


\* ------------------------------ views ---------------------------------
\* the storage block (empty when esb_string is NULL)
Storage == IF esb_string = NULL THEN <<>> ELSE heap[esb_string].bytes
\* the C string at esb_string: the bytes before the first NUL of the block
AsString == SubSeq(Storage, 1, strlen(Storage))
\* the C string at esb_string ends inside the block
Terminated == HasNul(Storage)

TypeOK ==
    /\ esb_string \in {NULL} \cup Addr
    /\ esb_allocated_size \in 0..MaxCap
    /\ esb_used_bytes \in 0..MaxCap
    /\ alloc_size \in 1..MaxQuantum
    /\ copy \in {NULL} \cup Addr
    /\ pc \in {"running", "exited", "killed"}
    /\ Len(Storage) = esb_allocated_size

\* bytes 0..length-1 of the storage: the content the buffer holds
Content == SubSeq(Storage, 1, Min(esb_used_bytes, Len(Storage)))
\* length < capacity and storage[length] = 0, on the real block
WellFormed ==
    /\ esb_used_bytes < esb_allocated_size
    /\ Len(Storage) = esb_allocated_size
    /\ Storage[esb_used_bytes + 1] = 0

(* ------------------------------- claims ------------------------------- *)

\* C1: after any sequence of esb_append / esb_appendn calls on a freshly
\* constructed buffer, for every growth quantum, esb_string_len is the sum
\* of the appended lengths and the string at esb_get_string is the
\* concatenation of the appended strings in call order.
C1_AppendConcatenates ==
    (pure /\ pc = "running") =>
        /\ esb_used_bytes = Len(expected)
        /\ AsString = expected
        /\ (esb_string # NULL => Terminated)

\* different bytes appended in more than one call, the last call reallocating
C1_Witness ==
    /\ pure /\ pc = "running"
    /\ last \in {"esb_append", "esb_appendn"}
    /\ Len(expected) >= 2
    /\ expected[1] # expected[2]
    /\ pre.used > 0
    /\ pre.alloc > 0 /\ esb_allocated_size > pre.alloc

\* C2: in every reachable state, capacity > 0 implies the storage is
\* present and length < capacity (the ASSERT of esb_appendn_internal).
C2_LengthBelowCapacity ==
    (pc = "running" /\ esb_allocated_size > 0) =>
        (esb_string # NULL /\ esb_used_bytes < esb_allocated_size)

\* C3: in every reachable state with storage allocated, the byte at offset
\* length of the storage is the terminator 0.
C3_TerminatorAtLength ==
    (pc = "running" /\ esb_string # NULL) =>
        /\ esb_used_bytes < Len(Storage)
        /\ Storage[esb_used_bytes + 1] = 0

\* C4: a formatted append whose render succeeds with expanded length m, from
\* any prior buffer state, leaves length = old length + m and the string =
\* old content followed by the whole expanded text.
C4_FormattedAppendsAll ==
    [][\A fmt \in Formats :
          (~fmt.err /\ AppendFormatted(fmt) /\ pc' = "running") =>
              /\ esb_used_bytes' = esb_used_bytes + Len(fmt.text)
              /\ Terminated'
              /\ AsString' = Content \o fmt.text]_vars

\* C5: between construction and destruction no operation leaves the
\* capacity smaller than it found it.
C5_CapacityMonotonic ==
    [][(pc' = "running" /\ last' # "esb_destructor") =>
          esb_allocated_size' >= esb_allocated_size]_vars

\* an append that had to grow already allocated storage
C5_Witness ==
    /\ pc = "running"
    /\ last \in {"esb_append", "esb_appendn", "esb_append_printf",
                 "esb_force_allocation"}
    /\ pre.alloc > 0
    /\ esb_allocated_size > pre.alloc

\* C6: every append and esb_force_allocation, reallocating or not, leaves
\* the bytes at offsets 0..old_length-1 as they were.
C6_AppendsKeepContent ==
    [][(pc' = "running" /\
         last' \in {"esb_append", "esb_appendn", "esb_append_printf",
                     "esb_force_allocation"}) =>
          \A i \in 1..esb_used_bytes :
              i <= Len(Storage') /\ Storage'[i] = Storage[i]]_vars

\* content was present and the operation moved to a larger block
C6_Witness ==
    /\ pc = "running"
    /\ last \in {"esb_append", "esb_appendn", "esb_append_printf"}
    /\ pre.used >= 1
    /\ esb_allocated_size > pre.alloc
    /\ esb_used_bytes > pre.used

C8_BoundedAppendClamps ==
    [][\A s \in InArrays, len \in 0..(MaxStr + 1) :
          (AppendBounded(s, len) /\ pc' = "running") =>
              LET n == Min(len, strlen(s))
              IN /\ esb_used_bytes' = esb_used_bytes + n
                 /\ Len(Storage') >= esb_used_bytes + n
                 /\ SubSeq(Storage', esb_used_bytes + 1, esb_used_bytes + n)
                       = SubSeq(s, 1, n)
                 /\ (stderr' # <<>>) <=> (strlen(s) < len)
                 /\ WellFormed']_vars

\* C9: whenever malloc or realloc fails, the diagnostic with the requested
\* size is written and the process exits with status 5, nothing being
\* written through the failed allocation.
C9_AllocationFailureIsFatal ==
    nomem =>
        /\ pc = "exited" /\ exit_code = EXIT_OOM
        /\ Len(stderr) >= 1
        /\ stderr[Len(stderr)][1] \in {"out of memory allocating",
                                       "out of memory re-allocating"}
        /\ ~oob

\* C10: esb_get_copy (its malloc succeeding) returns NULL exactly when
\* length = 0; otherwise a new block of length + 1 bytes holding the string
\* esb_get_string yields, the buffer being left as it was; and no later
\* operation on the buffer changes the copy.
C10_CopyIsDetached ==
    [][/\ (CopyOut /\ pc' = "running" /\ ~nomem') =>
            /\ (copy' = NULL) <=> (esb_used_bytes = 0)
            /\ copy' # NULL =>
                  /\ ~oob'
                  /\ copy' # esb_string
                  /\ Len(heap'[copy'].bytes) = esb_used_bytes + 1
                  /\ HasNul(heap'[copy'].bytes)
                  /\ SubSeq(heap'[copy'].bytes, 1, strlen(heap'[copy'].bytes))
                        = AsString
            /\ esb_used_bytes' = esb_used_bytes
            /\ esb_allocated_size' = esb_allocated_size
            /\ Storage' = Storage
       /\ (copy # NULL /\ copy' = copy /\ pc' = "running") =>
            heap'[copy] = heap[copy]]_vars

\* C11: a formatted append whose render reports a negative length leaves
\* the buffer as it found it: the length and the bytes before it are the
\* same, no byte of the partial text is left in the string, and a buffer
\* with length < capacity and storage[length] = 0 is still so afterwards.
C11_FailedRenderIsNoOp ==
    [][\A fmt \in Formats :
          (fmt.err /\ AppendFormatted(fmt) /\ pc' = "running") =>
              /\ esb_used_bytes' = esb_used_bytes
              /\ Content' = Content
              /\ (esb_allocated_size = 0 =>
                    esb_allocated_size' = 0 /\ esb_string' = NULL)
              /\ (WellFormed => WellFormed' /\ AsString' = AsString)]_vars

\* C12: esb_get_string never returns NULL: on a buffer with capacity 0 it
\* allocates alloc_size + 1 bytes, sets the length to 0 and stores the
\* terminator at offset 0, so it returns the empty string; on an allocated
\* buffer it changes neither length, capacity nor storage.
C12_GetStringNeverNull ==
    [][(GetString /\ pc' = "running") =>
          /\ esb_string' # NULL
          /\ (esb_allocated_size = 0 =>
                /\ esb_allocated_size' = alloc_size + 1
                /\ Len(Storage') = alloc_size + 1
                /\ esb_used_bytes' = 0
                /\ Storage'[1] = 0
                /\ AsString' = <<>>)
          /\ (esb_allocated_size > 0 =>
                /\ esb_allocated_size' = esb_allocated_size
                /\ esb_used_bytes' = esb_used_bytes
                /\ esb_string' = esb_string
                /\ Storage' = Storage)]_vars

\* esb_get_string materialised the storage of a never-allocated buffer
C12_Witness ==
    /\ pc = "running"
    /\ last = "esb_get_string"
    /\ pre.alloc = 0
    /\ esb_string # NULL
    /\ esb_allocated_size = alloc_size + 1

\* what a caller can observe of the states an operation may return in
Observed(Ts) ==
    {[pc |-> T.pc, stderr |-> T.stderr, oob |-> T.oob,
      alloc |-> T.esb_allocated_size, used |-> T.esb_used_bytes,
      bytes |-> IF T.pc = "running" /\ T.esb_string # NULL
                THEN T.heap[T.esb_string].bytes ELSE <<>>] : T \in Ts}
\* the machine state right after esb_constructor in a new process
Constructed ==
    [heap |-> [a \in Addr |-> FreeBlock], esb_string |-> NULL,
     esb_allocated_size |-> 0, esb_used_bytes |-> 0,
     stderr |-> <<>>, pc |-> "running", exit_code |-> 0, oob |-> FALSE,
     nomem |-> FALSE]

\* C13: esb_destructor, from any buffer state, frees the storage once when
\* it is present and leaves esb_string NULL, capacity 0 and length 0; on a
\* buffer already destroyed it frees nothing and leaves the same state; and
\* an append that follows behaves as on a newly constructed buffer.
C13_DestroyResets ==
    [][Destroy =>
          /\ pc' = "running"
          /\ esb_string' = NULL
          /\ esb_allocated_size' = 0
          /\ esb_used_bytes' = 0
          /\ copy' = copy
          /\ (esb_string # NULL =>
                /\ heap[esb_string].live
                /\ heap' = [heap EXCEPT ![esb_string] = FreeBlock])
          /\ (esb_string = NULL => heap' = heap)
          /\ \A s \in CStrings :
                Observed(esb_append(Cur', s)) =
                    Observed(esb_append(Constructed, s))]_vars

\* a buffer holding content was destroyed
C13_Witness ==
    /\ pc = "running"
    /\ last = "esb_destructor"
    /\ pre.alloc > 0 /\ pre.used > 0
    /\ esb_string = NULL
    /\ esb_allocated_size = 0

\* C14: when the measure phase of a formatted append has reported length
\* m >= 0 and returned, the capacity is at least length + m + 1, so the
\* render that follows has room for the whole text and its terminator.
C14_RenderHasRoom ==
    (pc = "running" /\ CopyReleased) =>
        \A fmt \in Formats :
            ~fmt.err =>
                \A a \in esb_allocate_more_if_needed(Cur, fmt) :
                    a.pc = "running" =>
                        a.esb_allocated_size >=
                            esb_used_bytes + Len(fmt.text) + 1

\* C15: in a formatted append whose render is offered r = capacity - length
\* bytes and reports length e >= 0, the length advances by the number of
\* content bytes stored (e when e < r, r - 1 when e >= r), so afterwards
\* length < capacity and storage[length] = 0, for e = r too.
C15_AdvanceByBytesStored ==
    [][\A fmt \in Formats :
          (/\ ~fmt.err
           /\ (WellFormed \/ esb_allocated_size = 0)
           /\ AppendFormatted(fmt)
           /\ pc' = "running") =>
              LET r == esb_allocated_size' - esb_used_bytes
                  e == Len(fmt.text)
              IN /\ esb_used_bytes' =
                        esb_used_bytes + (IF e < r THEN e ELSE r - 1)
                 /\ WellFormed']_vars

\* C16: no operation on the buffer (the appends, the formatted append,
\* esb_empty_string, esb_get_string, esb_force_allocation) writes a byte at
\* an offset outside the storage block it has at the time of the write, in
\* any state reachable by the public functions.
C16_WritesInsideCapacity ==
    (last \in {"esb_append", "esb_appendn", "esb_append_printf",
               "esb_empty_string", "esb_get_string",
               "esb_force_allocation"}) => ~oob

\* C17: the capacity after esb_appendn_internal(data, s, len) with growth
\* quantum q is max(len, q) + 1 when the buffer was never allocated;
\* otherwise, with C and L the capacity and length before, max(C + len, q)
\* when C - L <= len and C when C - L > len (an append that fits does not
\* reallocate).  esb_appendn passes min(len, strlen(s)); esb_append passes
\* strlen(s) and does not make the call for an empty string; the length
\* passed is the number of bytes the call adds to expected.
C17_AppendCapacity ==
    [][LET len == Len(expected') - Len(expected)
       IN (/\ pc' = "running"
           /\ \/ last' = "esb_appendn"
              \/ last' = "esb_append" /\ len > 0) =>
              /\ esb_allocated_size' =
                    IF esb_allocated_size = 0 THEN Max(len, alloc_size) + 1
                    ELSE IF esb_allocated_size - esb_used_bytes <= len
                         THEN Max(esb_allocated_size + len, alloc_size)
                         ELSE esb_allocated_size
              /\ Len(Storage') = esb_allocated_size']_vars

\* an append to allocated storage whose free space did not exceed the
\* bytes to add, so that the capacity grew by their number
C17_Witness ==
    /\ pc = "running"
    /\ last \in {"esb_append", "esb_appendn"}
    /\ pre.used > 0
    /\ pre.alloc - pre.used <= esb_used_bytes - pre.used
    /\ esb_allocated_size = pre.alloc + (esb_used_bytes - pre.used)
    /\ ~oob

\* C18: esb_force_allocation(data, minlen) with growth quantum q leaves the
\* capacity max(minlen, q) when it was below minlen, and changes nothing
\* when it was at least minlen; in both cases the length and the bytes
\* before it are unchanged.
C18_ForceCapacityExact ==
    [][(last' = "esb_force_allocation" /\ pc' = "running") =>
          \A minlen \in 0..MaxCap :
              ForceCapacity(minlen) =>
                  /\ esb_used_bytes' = esb_used_bytes
                  /\ Content' = Content
                  /\ Len(Storage') = esb_allocated_size'
                  /\ IF esb_allocated_size < minlen
                     THEN esb_allocated_size' = Max(minlen, alloc_size)
                     ELSE /\ esb_allocated_size' = esb_allocated_size
                          /\ esb_string' = esb_string
                          /\ heap' = heap]_vars

\* esb_force_allocation raised the capacity of a buffer holding content
C18_Witness ==
    /\ pc = "running"
    /\ last = "esb_force_allocation"
    /\ pre.used > 0
    /\ esb_used_bytes = pre.used
    /\ esb_allocated_size > pre.alloc

\* C19: a formatted append leaves the capacity unchanged whenever the
\* capacity before the call is at least length + m + 1, m >= 0 being the
\* length its measure phase reports.
C19_FormattedKeepsCapacity ==
    [][last' = "esb_append_printf" =>
          \A fmt \in Formats :
              (/\ ~fmt.err
               /\ esb_allocated_size >= esb_used_bytes + Len(fmt.text) + 1
               /\ AppendFormatted(fmt)) =>
                  /\ pc' = "running"
                  /\ esb_allocated_size' = esb_allocated_size
                  /\ esb_string' = esb_string]_vars

\* text was formatted into the free space of a buffer holding content
C19_Witness ==
    /\ pc = "running"
    /\ last = "esb_append_printf"
    /\ pre.used > 0
    /\ esb_used_bytes > pre.used
    /\ esb_used_bytes < pre.alloc
    /\ esb_allocated_size = pre.alloc
    /\ Storage[esb_used_bytes + 1] = 0

\* C20: esb_allocate_more(data, len) never leaves a capacity smaller than
\* the one it found, for every len in the range of size_t: len = 0, and
\* the values for which esb_allocated_size + len passes the largest size_t
\* (the sum being taken modulo SIZE_MOD).
C20_GrowNeverShrinks ==
    [][(last' = "esb_allocate_more" /\ pc' = "running") =>
          esb_allocated_size' >= esb_allocated_size]_vars

=============================================================================
